---- MODULE Spec2Model ----
(***************************************************************************)
(* Model of docs-downloader.js: withRetry, downloadPdf and the book loop   *)
(* of scrapeAndDownloadDocs.                                               *)
(*                                                                         *)
(* Strings are modelled as sequences of tokens (a token is a character or  *)
(* a run of characters).  s.includes(p) is "p is one of the tokens of s",  *)
(* template literals are concatenations, String.replace maps tokens.       *)
(***************************************************************************)
EXTENDS Integers, Sequences, FiniteSets, TLC

\* ------------------------------------------------------------------ bounds
MaxBooks == 2
MaxRetryCount == 5
MaxBodyLen == 1
MaxTitleLen == 2

\* --------------------------------------------------------------- constants
MAX_RETRIES == 1
BackoffBase == 1000
BackoffCap == 10000
HttpOk == 200

NULL == <<"null">>

\* ----------------------------------------------------------- string helpers
Includes(s, p) == \E k \in 1..Len(s) : s[k] = p

RECURSIVE Pow2(_)
Pow2(n) == IF n = 0 THEN 1 ELSE 2 * Pow2(n - 1)

Min(a, b) == IF a < b THEN a ELSE b

RECURSIVE SumSeq(_)
SumSeq(s) == IF s = <<>> THEN 0 ELSE Head(s) + SumSeq(Tail(s))

\* ------------------------------------------------------------------ withRetry
\* Outcome of one invocation of an asynchronous action: it resolves with a
\* value, rejects with an error message, or never settles.
Resolved(v) == [kind |-> "ok", val |-> v]
Rejected(m) == [kind |-> "fail", val |-> m]
Pending == [kind |-> "hang", val |-> <<>>]

\* line 26: Math.min(1000 * Math.pow(2, attempt), 10000)
BackoffDelayNoCap(attempt) == BackoffBase * Pow2(attempt)
BackoffDelay(attempt) == Min(BackoffBase * Pow2(attempt), BackoffCap)

\* line 32: `All ${retryCount + 1} attempts failed for ${actionName}: ${lastError.message}`
AllFailedMessage(retryCount, actionName, lastError) ==
  <<"All", ToString(retryCount + 1), "attempts failed for">> \o actionName
    \o <<":">> \o lastError

\* line 16: the loop condition attempt <= retryCount
RetryLoopContinuesStrict(attempt, retryCount) == attempt < retryCount
RetryLoopContinues(attempt, retryCount) == attempt <= retryCount

\* line 21: return await actionFn()
RetryReturns(act, attempt) == act[attempt + 1].val

\* The for loop of lines 16-31, from the given attempt on.  act[k] is the
\* outcome of the k-th invocation of actionFn.  The result carries the number
\* of invocations made and the delays waited, in order.
RECURSIVE RetryLoop(_, _, _, _, _, _, _)
RetryLoop(act, actionName, retryCount, attempt, lastError, invoked, waits) ==
  IF ~RetryLoopContinues(attempt, retryCount)
  THEN [kind |-> "fail",
        val |-> AllFailedMessage(retryCount, actionName, lastError),
        invoked |-> invoked, waits |-> waits]
  ELSE LET r == act[attempt + 1] IN
       CASE r.kind = "ok" ->
              [kind |-> "ok", val |-> RetryReturns(act, attempt),
               invoked |-> invoked + 1, waits |-> waits]
         [] r.kind = "hang" ->
              [kind |-> "hang", val |-> <<>>,
               invoked |-> invoked + 1, waits |-> waits]
         [] OTHER ->
              RetryLoop(act, actionName, retryCount, attempt + 1, r.val,
                        invoked + 1,
                        IF attempt < retryCount
                        THEN Append(waits, BackoffDelay(attempt))
                        ELSE waits)

withRetry(act, actionName, retryCount) ==
  RetryLoop(act, actionName, retryCount, 0, <<>>, 0, <<>>)

\* ---------------------------------------------------------------- downloadPdf
ForbiddenChars == {"/", "\\", ":", "*", "?", "\"", "<", ">", "|"}

\* The same replace without the g flag: only the first match is replaced.
SanitizeTitleFirst(title) ==
  [k \in 1..Len(title) |->
     IF title[k] \in ForbiddenChars /\ \A j \in 1..(k - 1) : title[j] \notin ForbiddenChars
     THEN "_" ELSE title[k]]

\* line 38: title.replace(/[\/\\\:\*\?\"\<\>\|]/g, '_')
SanitizeTitle(title) ==
  [k \in 1..Len(title) |-> IF title[k] \in ForbiddenChars THEN "_" ELSE title[k]]

\* line 39: path.join('downloads', `${sanitizedTitle}.pdf`)
DownloadFilePath(title) == <<"downloads", "/">> \o SanitizeTitle(title) \o <<".pdf">>

\* line 43: res.statusCode !== 200
StatusRejectedNever(status) == FALSE
StatusRejected(status) == status # HttpOk

\* line 53: buffer.length === 0
BodyRejectedNever(len) == FALSE
BodyRejected(len) == len = 0

\* One call of downloadPdf against one HTTP exchange.  resp.kind is
\* "response" (a status line arrived), "reqError" (the request emitted
\* 'error') or "hang" (the server never completes the response); resp.body is
\* "end" or "error" (the response stream emitted 'error'); resp.fs is the
\* outcome of mkdir/writeFile.  The result adds the file written, if any.
downloadPdf(url, title, resp) ==
  CASE resp.kind = "hang" ->
         [kind |-> "hang", val |-> <<>>, file |-> NULL, size |-> 0]
    [] resp.kind = "reqError" ->
         [kind |-> "fail",
          val |-> <<"HTTPS error for PDF">> \o title \o <<":", "socket hang up">>,
          file |-> NULL, size |-> 0]
    [] StatusRejected(resp.status) ->
         [kind |-> "fail",
          val |-> <<"Failed to download PDF. Status code:", ToString(resp.status), "for">> \o url,
          file |-> NULL, size |-> 0]
    [] resp.body = "error" ->
         [kind |-> "fail",
          val |-> <<"HTTPS request error for PDF">> \o title \o <<":", "aborted">>,
          file |-> NULL, size |-> 0]
    [] BodyRejected(resp.len) ->
         [kind |-> "fail",
          val |-> <<"Downloaded PDF for">> \o title \o <<"is empty.">>,
          file |-> NULL, size |-> 0]
    [] resp.fs # "ok" ->
         [kind |-> "fail",
          val |-> <<"Error writing PDF file for">> \o title \o <<":", resp.fs>>,
          file |-> NULL, size |-> 0]
    [] OTHER ->
         [kind |-> "ok", val |-> DownloadFilePath(title),
          file |-> DownloadFilePath(title), size |-> resp.len]

\* ------------------------------------------------------------- program state
VARIABLES
  pc,              \* position of scrapeAndDownloadDocs
  runHeadless,     \* argument runHeadless
  nodeMode,        \* what the runtime does with an unhandled rejection
  site,            \* titles of the rh-tile elements of the listing page
  books,           \* const books (line 115), empty before the scan
  i,               \* loop index of line 128 (1-based)
  healthy,         \* every browser/network step of the current book would succeed
  browser,         \* let browser (line 76): "null" or "handle"
  context,         \* let context (line 77): "null" or "handle"
  live,            \* the launched browser process and its context are open
  launches,        \* number of chromium.launch calls made
  teardowns,       \* number of session teardowns made by the critical branch
  pages,           \* the open pages: <<book index, role, ordinal>>
  bookPage,        \* let bookPage (line 134): NoPage or a page
  newPageForPdf,   \* let newPageForPdf (line 136): NoPage or a page
  pdfUrl,          \* let pdfUrl (line 135)
  newPagePromise,  \* let newPagePromise (line 171): [state, page, reason]
  stale,           \* books of earlier iterations whose waitForEvent is still armed
  error,           \* the error being thrown to the book's catch
  outerError,      \* the error caught by the outer catch (line 284)
  downloadResults, \* const downloadResults (line 127)
  files,           \* files under downloads/: set of <<path, size>>
  resultsSaved,    \* the results artifact was written
  trail,           \* the stages the current book went through, with outcomes
  unit             \* a single call of withRetry or of the retried downloadPdf

vars == <<pc, runHeadless, nodeMode, site, books, i, healthy, browser, context,
          live, launches, teardowns, pages, bookPage, newPageForPdf, pdfUrl,
          newPagePromise, stale, error, outerError, downloadResults, files, resultsSaved,
          trail, unit>>

\* ------------------------------------------------------------- inputs
productName == <<"p">>
productVersion == <<"v">>

\* Titles the listing page can carry: one with characters that are illegal in
\* file names, one that contains a critical substring.
\* The listing pages: up to MaxBooks tiles, the two titles alternating.
Shelf(n) ==
  [k \in 1..n |-> IF k % 2 = 1 THEN <<"A", "/", "B">> ELSE <<"Target closed">>]

Listings == {Shelf(n) : n \in 0..MaxBooks}

\* Messages of the errors the browser library raises.
TimeoutError == <<"Timeout exceeded">>
TargetClosedError == <<"Target closed">>
BrowserErrors == {TimeoutError, TargetClosedError}

\* line 139 with context === null
NullContextError == <<"Cannot read properties of null (reading 'newPage')">>

StepOutcomes(h) ==
  IF h THEN {Resolved(<<>>)} ELSE {Resolved(<<>>)} \cup {Rejected(e) : e \in BrowserErrors}

\* The outcomes of the invocations a withRetry(…) call with the default
\* retry count can make.
StepActs(h) == [1..(MAX_RETRIES + 1) -> StepOutcomes(h)]

\* ------------------------------------------------------------- results
\* line 228
criticalErrorPatterns ==
  {"Object with guid", "not bound in the connection", "has been closed",
   "Target closed", "Navigation failed", "context has been destroyed"}

\* line 229
IsCriticalErrorAlways(message) == TRUE
IsCriticalError(message) == \E p \in criticalErrorPatterns : Includes(message, p)

\* line 224
SuccessResult(book, url, path) ==
  [title |-> book, pdfUrl |-> url, downloadPath |-> path, success |-> TRUE,
   error |-> NULL, criticalError |-> FALSE]

\* line 242
FailureResult(book, message, critical) ==
  [title |-> book, pdfUrl |-> NULL, downloadPath |-> NULL, success |-> FALSE,
   error |-> message, criticalError |-> critical]

\* lines 224, 242: downloadResults.push(result)
Unshift(ledger, result) == <<result>> \o ledger
Push(ledger, result) == Append(ledger, result)

\* line 128: i < books.length (0-based), with the 1-based index idx
LoopContinuesShort(idx, n) == idx < n
LoopContinues(idx, n) == idx <= n

NoPage == <<0, "none", 0>>

NoPromise == [state |-> "none", page |-> NoPage, reason |-> NULL]

Idle == [fn |-> "none"]

Init ==
  /\ pc = "launch"
  /\ runHeadless \in BOOLEAN
  /\ nodeMode \in {"throw", "warn"}
  /\ (runHeadless => nodeMode = "throw")   \* no listener is armed in headless mode
  /\ site \in Listings
  /\ books = <<>>
  /\ i = 1
  /\ healthy = FALSE
  /\ browser = "null"
  /\ context = "null"
  /\ live = FALSE
  /\ launches = 0
  /\ teardowns = 0
  /\ pages = {}
  /\ bookPage = NoPage
  /\ newPageForPdf = NoPage
  /\ pdfUrl = NULL
  /\ newPagePromise = NoPromise
  /\ stale = {}
  /\ error = NULL
  /\ outerError = NULL
  /\ downloadResults = <<>>
  /\ files = {}
  /\ resultsSaved = FALSE
  /\ trail = <<>>
  /\ unit = Idle

\* ------------------------------------------------------------- pages, promises
\* page.close(); closing a page that is already closed changes nothing
ClosePage(ps, p) == ps \ {p}

\* The context emits 'page' for a page it opened: an armed
\* context.waitForEvent('page') resolves with that page.
ResolvePending(pr, p) ==
  IF pr.state = "pending" THEN [state |-> "resolved", page |-> p, reason |-> NULL] ELSE pr

\* The context closes or the wait times out: an armed waitForEvent rejects.
RejectPending(pr, reason) ==
  IF pr.state = "pending"
  THEN [state |-> "rejected", page |-> NoPage, reason |-> reason] ELSE pr

\* Some waitForEvent is armed and nobody is awaiting it.
AnyUnawaited(pr, st, at) == st # {} \/ (pr.state = "pending" /\ at # "awaitNewPage")

\* ------------------------------------------------------------- setup
MainPage == <<0, "main", 0>>

\* lines 93-102: launch, newContext, addCookies, newPage
Launch ==
  /\ pc = "launch"
  /\ launches' = launches + 1
  /\ \E failAt \in {"launch", "newContext", "addCookies", "newPage", "none"},
        e \in BrowserErrors :
       /\ browser' = IF failAt = "launch" THEN "null" ELSE "handle"
       /\ live' = (failAt # "launch")
       /\ context' = IF failAt \in {"launch", "newContext"} THEN "null" ELSE "handle"
       /\ pages' = IF failAt = "none" THEN {MainPage} ELSE pages
       /\ outerError' = IF failAt = "none" THEN NULL ELSE e
       /\ pc' = IF failAt = "none" THEN "scan" ELSE "outerCatch"
  /\ UNCHANGED <<runHeadless, nodeMode, site, books, i, healthy, teardowns,
                 bookPage, newPageForPdf, pdfUrl, newPagePromise, stale, error,
                 downloadResults, files, resultsSaved, unit, trail>>

\* lines 104-125: the listing scan
Scan ==
  /\ pc = "scan"
  /\ \E nav \in StepActs(FALSE), tiles \in StepActs(FALSE),
        ev \in StepOutcomes(FALSE), cl \in StepOutcomes(FALSE) :
       LET r1 == withRetry(nav, <<"navigation to main documentation page for">>
                                  \o productName \o productVersion, MAX_RETRIES)
           r2 == withRetry(tiles, <<"waiting for documentation tiles to load">>, MAX_RETRIES)
       IN  CASE r1.kind = "fail" ->
                  /\ outerError' = r1.val /\ pc' = "outerCatch"
                  /\ UNCHANGED <<books, pages>>
             [] r1.kind = "ok" /\ r2.kind = "fail" ->
                  /\ outerError' = r2.val /\ pc' = "outerCatch"
                  /\ UNCHANGED <<books, pages>>
             [] r1.kind = "ok" /\ r2.kind = "ok" /\ ev.kind = "fail" ->
                  /\ outerError' = ev.val /\ pc' = "outerCatch"
                  /\ UNCHANGED <<books, pages>>
             [] r1.kind = "ok" /\ r2.kind = "ok" /\ ev.kind = "ok" /\ cl.kind = "fail" ->
                  /\ books' = site
                  /\ outerError' = cl.val /\ pc' = "outerCatch"
                  /\ UNCHANGED pages
             [] OTHER ->
                  /\ books' = site
                  /\ pages' = ClosePage(pages, MainPage)
                  /\ pc' = "loopHead"
                  /\ UNCHANGED outerError
  /\ UNCHANGED <<runHeadless, nodeMode, site, i, healthy, browser, context, live,
                 launches, teardowns, bookPage, newPageForPdf, pdfUrl,
                 newPagePromise, stale, error, downloadResults, files,
                 resultsSaved, unit, trail>>

\* ------------------------------------------------------------- the book loop
\* The actionName each step of a book passes to withRetry (lines 143, 168, 179,
\* 194, 203, 222).
ActionName(step, title) ==
  CASE step = "navigate" -> <<"navigation to">> \o title \o <<"HTML page">>
    [] step = "dropdown" -> <<"waiting for format dropdown on">> \o title \o <<"page">>
    [] step = "select" -> <<"selecting PDF format for">> \o title
    [] step = "waitUrl" -> <<"waiting for new page to reach PDF URL for">> \o title
    [] step = "waitLoad" -> <<"waiting for PDF content 'load' state for">> \o title
    [] OTHER -> <<"downloading PDF for">> \o title

\* line 161
RegexFailedError(title) ==
  <<"Regex failed to find specific PDF link for">> \o title \o <<".">>

\* The stage of a book, attempted with the given outcome, joins its trail.
Attempted(tr, stage, ok) == Append(tr, <<stage, IF ok THEN "ok" ELSE "fail">>)

\* await withRetry(...): the statement after it runs only when it returned;
\* a throw leaves the try block for the book's catch.
ProceedsAlways(r) == TRUE
Proceeds(r) == r.kind = "ok"

\* lines 128-136: loop test and the per-book declarations
LoopHead ==
  /\ pc = "loopHead"
  /\ IF LoopContinues(i, Len(books))
     THEN /\ healthy' \in BOOLEAN
          /\ bookPage' = NoPage
          /\ pdfUrl' = NULL
          /\ newPageForPdf' = NoPage
          /\ pc' = "newPage"
     ELSE /\ pc' = "save"
          /\ UNCHANGED <<healthy, bookPage, pdfUrl, newPageForPdf>>
  /\ UNCHANGED <<runHeadless, nodeMode, site, books, i, browser, context, live,
                 launches, teardowns, pages, newPagePromise, stale, error,
                 outerError, downloadResults, files, resultsSaved, unit, trail>>

\* line 139: bookPage = await context.newPage()
OpenPage ==
  /\ pc = "newPage"
  /\ IF context = "null"
     THEN /\ error' = NullContextError
          /\ pc' = "catch"
          /\ UNCHANGED <<pages, bookPage, stale>>
     ELSE \E o \in StepOutcomes(healthy) :
            IF o.kind = "ok"
            THEN /\ pages' = pages \cup {<<i, "book", 0>>}
                 /\ bookPage' = <<i, "book", 0>>
                 /\ stale' = {}
                 /\ pc' = "navigate"
                 /\ UNCHANGED error
            ELSE /\ error' = o.val
                 /\ pc' = "catch"
                 /\ UNCHANGED <<pages, bookPage, stale>>
  /\ UNCHANGED <<runHeadless, nodeMode, site, books, i, healthy, browser, context,
                 live, launches, teardowns, newPageForPdf, pdfUrl, newPagePromise,
                 outerError, downloadResults, files, resultsSaved, unit, trail>>

\* lines 141-146: navigation to the book's HTML page, then the mode branch
Navigate ==
  /\ pc = "navigate"
  /\ \E act \in StepActs(healthy) :
       LET r == withRetry(act, ActionName("navigate", books[i]), MAX_RETRIES)
       IN  /\ trail' = Attempted(trail, "navigate", r.kind = "ok")
           /\ IF Proceeds(r)
              THEN /\ pc' = IF runHeadless THEN "extract" ELSE "dropdown"
                   /\ UNCHANGED error
              ELSE /\ error' = r.val
                   /\ pc' = "catch"
  /\ UNCHANGED <<runHeadless, nodeMode, site, books, i, healthy, browser, context,
                 live, launches, teardowns, pages, bookPage, newPageForPdf, pdfUrl,
                 newPagePromise, stale, outerError, downloadResults, files,
                 resultsSaved, unit>>

\* The PDF URL the n-th book's page leads to.
PdfUrlOf(n) ==
  <<"https://docs.redhat.com/en/documentation/">> \o productName \o <<"/">>
    \o productVersion \o <<"/pdf/", ToString(n), ".pdf">>

\* lines 147-162: headless mode, the regex over the page content
Extract ==
  /\ pc = "extract"
  /\ \E o \in StepOutcomes(healthy), match \in (IF healthy THEN {TRUE} ELSE BOOLEAN) :
       /\ trail' = Attempted(trail, "locate", o.kind = "ok" /\ match)
       /\ CASE o.kind = "fail" ->
                 /\ error' = o.val /\ pc' = "catch" /\ UNCHANGED pdfUrl
            [] o.kind = "ok" /\ match ->
                 /\ pdfUrl' = PdfUrlOf(i) /\ pc' = "download" /\ UNCHANGED error
            [] OTHER ->
                 /\ error' = RegexFailedError(books[i])
                 /\ pc' = "catch" /\ UNCHANGED pdfUrl
  /\ UNCHANGED <<runHeadless, nodeMode, site, books, i, healthy, browser, context,
                 live, launches, teardowns, pages, bookPage, newPageForPdf,
                 newPagePromise, stale, outerError, downloadResults, files,
                 resultsSaved, unit>>

\* lines 165-169: headed mode, wait for the format dropdown
WaitDropdown ==
  /\ pc = "dropdown"
  /\ \E act \in StepActs(healthy) :
       LET r == withRetry(act, ActionName("dropdown", books[i]), MAX_RETRIES)
       IN  /\ trail' = IF r.kind = "ok" THEN trail ELSE Attempted(trail, "locate", FALSE)
           /\ IF Proceeds(r)
              THEN /\ pc' = "arm" /\ UNCHANGED error
              ELSE /\ error' = r.val /\ pc' = "catch"
  /\ UNCHANGED <<runHeadless, nodeMode, site, books, i, healthy, browser, context,
                 live, launches, teardowns, pages, bookPage, newPageForPdf, pdfUrl,
                 newPagePromise, stale, outerError, downloadResults, files,
                 resultsSaved, unit>>

\* line 174: newPagePromise = context.waitForEvent('page', { timeout: 60000 })
ArmListener ==
  /\ pc = "arm"
  /\ newPagePromise' = [state |-> "pending", page |-> NoPage, reason |-> NULL]
  /\ pc' = "select"
  /\ UNCHANGED <<runHeadless, nodeMode, site, books, i, healthy, browser, context,
                 live, launches, teardowns, pages, bookPage, newPageForPdf, pdfUrl,
                 stale, error, outerError, downloadResults, files, resultsSaved,
                 unit, trail>>

\* One invocation of bookPage.selectOption('#page-format', 'pdf'): it resolves
\* or rejects, and the selection it made may have opened the PDF tab either way.
SelectOutcomes(h) ==
  IF h THEN {[kind |-> "ok", val |-> <<>>, opens |-> TRUE]}
  ELSE {[kind |-> "ok", val |-> <<>>, opens |-> o] : o \in BOOLEAN}
       \cup {[kind |-> "fail", val |-> e, opens |-> o] : e \in BrowserErrors, o \in BOOLEAN}

\* The PDF tabs opened by the first n invocations of act for book b.
PagesOpenedBy(act, n, b) == {<<b, "pdf", k>> : k \in {j \in 1..n : act[j].opens}}

\* The first of them: the page the 'page' event is emitted for first.
FirstOpened(ps) == CHOOSE p \in ps : \A q \in ps : p[3] <= q[3]

\* lines 177-180: select the PDF format, under withRetry; the listener stays
\* the one armed at line 174, before the first attempt
SelectOption ==
  /\ pc = "select"
  /\ \E act \in [1..(MAX_RETRIES + 1) -> SelectOutcomes(healthy)] :
       LET r == withRetry(act, ActionName("select", books[i]), MAX_RETRIES)
           opened == PagesOpenedBy(act, r.invoked, i)
       IN  /\ pages' = pages \cup opened
           /\ newPagePromise' = IF opened # {}
                                THEN ResolvePending(newPagePromise, FirstOpened(opened))
                                ELSE newPagePromise
           /\ stale' = IF opened # {} THEN {} ELSE stale
           /\ trail' = IF r.kind = "ok" THEN trail ELSE Attempted(trail, "locate", FALSE)
           /\ IF Proceeds(r)
              THEN /\ pc' = "awaitNewPage" /\ UNCHANGED error
              ELSE /\ error' = r.val /\ pc' = "catch"
  /\ UNCHANGED <<runHeadless, nodeMode, site, books, i, healthy, browser, context,
                 live, launches, teardowns, bookPage, newPageForPdf, pdfUrl,
                 outerError, downloadResults, files, resultsSaved, unit>>

\* line 183: newPageForPdf = await newPagePromise
AwaitNewPage ==
  /\ pc = "awaitNewPage"
  /\ CASE newPagePromise.state = "resolved" ->
            /\ newPageForPdf' = newPagePromise.page
            /\ pc' = "waitUrl"
            /\ UNCHANGED <<error, newPagePromise, trail>>
       [] newPagePromise.state = "rejected" ->
            /\ error' = newPagePromise.reason
            /\ trail' = Attempted(trail, "locate", FALSE)
            /\ pc' = "catch"
            /\ UNCHANGED <<newPageForPdf, newPagePromise>>
       [] OTHER ->
            \E e \in BrowserErrors :
              /\ newPagePromise' = RejectPending(newPagePromise, e)
              /\ error' = e
              /\ trail' = Attempted(trail, "locate", FALSE)
              /\ pc' = "catch"
              /\ UNCHANGED newPageForPdf
  /\ UNCHANGED <<runHeadless, nodeMode, site, books, i, healthy, browser, context,
                 live, launches, teardowns, pages, bookPage, pdfUrl, stale,
                 outerError, downloadResults, files, resultsSaved, unit>>

\* lines 191-196: wait for the new page to reach a PDF URL, then read it
WaitUrl ==
  /\ pc = "waitUrl"
  /\ \E act \in StepActs(healthy) :
       LET r == withRetry(act, ActionName("waitUrl", books[i]), MAX_RETRIES)
       IN  /\ trail' = IF r.kind = "ok" THEN trail ELSE Attempted(trail, "locate", FALSE)
           /\ IF Proceeds(r)
              THEN /\ pdfUrl' = PdfUrlOf(i) /\ pc' = "waitLoad" /\ UNCHANGED error
              ELSE /\ error' = r.val /\ pc' = "catch" /\ UNCHANGED pdfUrl
  /\ UNCHANGED <<runHeadless, nodeMode, site, books, i, healthy, browser, context,
                 live, launches, teardowns, pages, bookPage, newPageForPdf,
                 newPagePromise, stale, outerError, downloadResults, files,
                 resultsSaved, unit>>

\* lines 199-204: wait for the PDF page's load state
WaitLoad ==
  /\ pc = "waitLoad"
  /\ \E act \in StepActs(healthy) :
       LET r == withRetry(act, ActionName("waitLoad", books[i]), MAX_RETRIES)
       IN  /\ trail' = Attempted(trail, "locate", r.kind = "ok")
           /\ IF Proceeds(r)
              THEN /\ pc' = "download" /\ UNCHANGED error
              ELSE /\ error' = r.val /\ pc' = "catch"
  /\ UNCHANGED <<runHeadless, nodeMode, site, books, i, healthy, browser, context,
                 live, launches, teardowns, pages, bookPage, newPageForPdf, pdfUrl,
                 newPagePromise, stale, outerError, downloadResults, files,
                 resultsSaved, unit>>

\* ------------------------------------------------------------- download step
Response(kind, status, body, len, fs) ==
  [kind |-> kind, status |-> status, body |-> body, len |-> len, fs |-> fs]

GoodResponse == Response("response", HttpOk, "end", 1, "ok")

\* The HTTP exchanges a download can meet.
Responses ==
  {Response("hang", 0, "end", 0, "ok"), Response("reqError", 0, "end", 0, "ok")}
  \cup {Response("response", 404, "end", n, "ok") : n \in 0..MaxBodyLen}
  \cup {Response("response", HttpOk, "error", 0, "ok")}
  \cup {Response("response", HttpOk, "end", n, f) :
          n \in 0..MaxBodyLen, f \in {"ok", "writeFail"}}

ResponsesFor(h) == IF h THEN {GoodResponse} ELSE Responses

\* line 62: fs.writeFile(filePath, buffer) replaces the file at filePath
WriteFile(fs, path, size) ==
  {f \in fs : f[1] # path} \cup {<<path, size>>}

\* The file system after the first n of the download attempts outs.
RECURSIVE AfterDownloads(_, _, _)
AfterDownloads(fs, outs, n) ==
  IF n = 0 THEN fs
  ELSE LET before == AfterDownloads(fs, outs, n - 1)
       IN  IF outs[n].file = NULL THEN before
           ELSE WriteFile(before, outs[n].file, outs[n].size)

\* line 219
DownloadTitle(book) == productName \o <<"-">> \o productVersion \o <<"-">> \o book

\* lines 214-224: the common download logic and the success record
Download ==
  /\ pc = "download"
  /\ IF pdfUrl = NULL
     THEN /\ error' = <<"No PDF URL could be determined for">> \o books[i] \o <<".">>
          /\ pc' = "catch"
          /\ UNCHANGED <<files, downloadResults, trail>>
     ELSE \E resps \in [1..(MAX_RETRIES + 1) -> ResponsesFor(healthy)] :
            LET outs == [k \in 1..(MAX_RETRIES + 1) |->
                           downloadPdf(pdfUrl, DownloadTitle(books[i]), resps[k])]
                r == withRetry(outs, ActionName("download", books[i]), MAX_RETRIES)
            IN  /\ files' = AfterDownloads(files, outs, r.invoked)
                /\ CASE r.kind = "ok" ->
                          /\ downloadResults' =
                               Push(downloadResults, SuccessResult(books[i], pdfUrl, r.val))
                          /\ trail' = Attempted(Attempted(trail, "download", TRUE),
                                                 "record", TRUE)
                          /\ pc' = "finally"
                          /\ UNCHANGED error
                     [] r.kind = "hang" ->
                          /\ trail' = Attempted(trail, "download", FALSE)
                          /\ pc' = "hung"
                          /\ UNCHANGED <<error, downloadResults>>
                     [] OTHER ->
                          /\ error' = r.val
                          /\ trail' = Attempted(trail, "download", FALSE)
                          /\ pc' = "catch"
                          /\ UNCHANGED downloadResults
  /\ UNCHANGED <<runHeadless, nodeMode, site, books, i, healthy, browser, context,
                 live, launches, teardowns, pages, bookPage, newPageForPdf, pdfUrl,
                 newPagePromise, stale, outerError, resultsSaved, unit>>

\* ------------------------------------------------------------- catch / finally
ContextClosedError == <<"Target page, context or browser", "has been closed">>

\* line 230: if (isCriticalError && browser)
RestartsSessionNever(critical, b) == FALSE
RestartsSessionAlways(critical, b) == b # "null"
RestartsSession(critical, b) == critical /\ b # "null"

\* lines 226-242: the catch of one book.  Closing the context rejects every
\* waitForEvent still armed on it; a rejection nobody handles ends the process
\* when the runtime treats unhandled rejections as fatal.
Catch ==
  /\ pc = "catch"
  /\ LET critical == IsCriticalError(error)
     IN  IF RestartsSession(critical, browser)
         THEN /\ pages' = {}
              /\ live' = FALSE
              /\ newPagePromise' = RejectPending(newPagePromise, ContextClosedError)
              /\ stale' = {}
              /\ IF AnyUnawaited(newPagePromise, stale, pc) /\ nodeMode = "throw"
                 THEN /\ pc' = "crashed"
                      /\ UNCHANGED <<browser, context, teardowns, downloadResults,
                                     error, trail>>
                 ELSE /\ browser' = "null"
                      /\ context' = "null"
                      /\ teardowns' = teardowns + 1
                      /\ downloadResults' =
                           Push(downloadResults, FailureResult(books[i], error, critical))
                      /\ trail' = Attempted(trail, "record", FALSE)
                      /\ error' = NULL
                      /\ pc' = "finally"
         ELSE /\ downloadResults' =
                   Push(downloadResults, FailureResult(books[i], error, critical))
              /\ trail' = Attempted(trail, "record", FALSE)
              /\ error' = NULL
              /\ pc' = "finally"
              /\ UNCHANGED <<pages, live, newPagePromise, stale, browser, context,
                             teardowns>>
  /\ UNCHANGED <<runHeadless, nodeMode, site, books, i, healthy, launches,
                 bookPage, newPageForPdf, pdfUrl, outerError, files, resultsSaved,
                 unit>>

\* lines 243-255: the finally of one book, the headed delay and i++; the
\* iteration's variables go out of scope, a listener still armed stays armed
Finally ==
  /\ pc = "finally"
  /\ pages' = ClosePage(ClosePage(pages, bookPage), newPageForPdf)
  /\ stale' = IF newPagePromise.state = "pending" THEN stale \cup {i} ELSE stale
  /\ newPagePromise' = NoPromise
  /\ bookPage' = NoPage
  /\ newPageForPdf' = NoPage
  /\ pdfUrl' = NULL
  /\ trail' = <<>>
  /\ i' = i + 1
  /\ pc' = "loopHead"
  /\ UNCHANGED <<runHeadless, nodeMode, site, books, healthy, browser, context,
                 live, launches, teardowns, error, outerError, downloadResults,
                 files, resultsSaved, unit>>

\* The 60 s timeout of a waitForEvent nobody is awaiting elapses.  In a book
\* whose steps all succeed the tab opens before the timeout.
ListenerTimeout ==
  /\ pc \notin {"done", "crashed"}
  /\ \/ /\ newPagePromise.state = "pending"
        /\ pc # "awaitNewPage"
        /\ ~healthy
        /\ newPagePromise' = RejectPending(newPagePromise, TimeoutError)
        /\ UNCHANGED stale
     \/ /\ \E k \in stale : stale' = stale \ {k}
        /\ UNCHANGED newPagePromise
  /\ pc' = IF nodeMode = "throw" THEN "crashed" ELSE pc
  /\ UNCHANGED <<runHeadless, nodeMode, site, books, i, healthy, browser, context,
                 live, launches, teardowns, pages, bookPage, newPageForPdf, pdfUrl,
                 error, outerError, downloadResults, files, resultsSaved, unit, trail>>

\* ------------------------------------------------------------- end of the run
\* lines 258-281: save the results file (a write error is caught) and tally
SaveResults ==
  /\ pc = "save"
  /\ resultsSaved' \in BOOLEAN
  /\ pc' = "outerFinally"
  /\ UNCHANGED <<runHeadless, nodeMode, site, books, i, healthy, browser, context,
                 live, launches, teardowns, pages, bookPage, newPageForPdf, pdfUrl,
                 newPagePromise, stale, error, outerError, downloadResults, files,
                 unit, trail>>

\* lines 284-286
OuterCatch ==
  /\ pc = "outerCatch"
  /\ pc' = "outerFinally"
  /\ UNCHANGED <<runHeadless, nodeMode, site, books, i, healthy, browser, context,
                 live, launches, teardowns, pages, bookPage, newPageForPdf, pdfUrl,
                 newPagePromise, stale, error, outerError, downloadResults, files,
                 resultsSaved, unit, trail>>

\* line 289: if (browser)
ClosesBrowserNever(b) == FALSE
ClosesBrowser(b) == b # "null"

\* lines 287-297
OuterFinally ==
  /\ pc = "outerFinally"
  /\ IF ClosesBrowser(browser)
     THEN /\ live' = FALSE
          /\ pages' = {}
          /\ stale' = {}
          /\ pc' = IF stale # {} /\ nodeMode = "throw" THEN "crashed" ELSE "done"
     ELSE /\ pc' = "done"
          /\ UNCHANGED <<live, pages, stale>>
  /\ UNCHANGED <<runHeadless, nodeMode, site, books, i, healthy, browser, context,
                 launches, teardowns, bookPage, newPageForPdf, pdfUrl,
                 newPagePromise, error, outerError, downloadResults, files,
                 resultsSaved, unit, trail>>

Next ==
  \/ Launch
  \/ Scan
  \/ LoopHead
  \/ OpenPage
  \/ Navigate
  \/ Extract
  \/ WaitDropdown
  \/ ArmListener
  \/ SelectOption
  \/ AwaitNewPage
  \/ WaitUrl
  \/ WaitLoad
  \/ Download
  \/ Catch
  \/ Finally
  \/ ListenerTimeout
  \/ SaveResults
  \/ OuterCatch
  \/ OuterFinally

Spec == Init /\ [][Next]_vars

\* ------------------------------------------------ single calls of withRetry
\* scrapeAndDownloadDocs is not running.
NotStarted ==
  /\ pc = "idle"
  /\ runHeadless = TRUE
  /\ nodeMode = "throw"
  /\ site = <<>>
  /\ books = <<>>
  /\ i = 1
  /\ healthy = FALSE
  /\ browser = "null"
  /\ context = "null"
  /\ live = FALSE
  /\ launches = 0
  /\ teardowns = 0
  /\ pages = {}
  /\ bookPage = NoPage
  /\ newPageForPdf = NoPage
  /\ pdfUrl = NULL
  /\ newPagePromise = NoPromise
  /\ stale = {}
  /\ error = NULL
  /\ outerError = NULL
  /\ downloadResults = <<>>
  /\ files = {}
  /\ resultsSaved = FALSE
  /\ trail = <<>>

program == <<pc, runHeadless, nodeMode, site, books, i, healthy, browser, context,
             live, launches, teardowns, pages, bookPage, newPageForPdf, pdfUrl,
             newPagePromise, stale, error, outerError, downloadResults, files,
             resultsSaved, trail>>

NotRun == [kind |-> "none", val |-> <<>>, invoked |-> 0, waits |-> <<>>]

\* The k-th invocation of an action of the given kind: its value or its error
\* message is its own.
Invocation(kind, k) ==
  CASE kind = "ok" -> Resolved(<<"value", ToString(k)>>)
    [] kind = "fail" -> Rejected(<<"error", ToString(k)>>)
    [] OTHER -> Pending

Label == <<"label">>

RetryInit ==
  /\ NotStarted
  /\ \E kinds \in [1..(MaxRetryCount + 1) -> {"ok", "fail", "hang"}],
        m \in 0..MaxRetryCount :
       unit = [fn |-> "withRetry",
               act |-> [k \in 1..(MaxRetryCount + 1) |-> Invocation(kinds[k], k)],
               actionName |-> Label,
               retryCount |-> m,
               result |-> NotRun]

\* lines 14-33: one call withRetry(actionFn, actionName, retryCount)
RetryRun ==
  /\ unit.fn = "withRetry"
  /\ unit.result = NotRun
  /\ unit' = [unit EXCEPT !.result = withRetry(unit.act, unit.actionName, unit.retryCount)]
  /\ UNCHANGED program

SpecRetry == RetryInit /\ [][RetryRun]_vars

\* ------------------------------------------------ single downloads
DownloadInit ==
  /\ NotStarted
  /\ \E resps \in [1..(MAX_RETRIES + 1) -> Responses], n \in 1..2 :
       unit = [fn |-> "downloadPdf",
               url |-> PdfUrlOf(n),
               title |-> DownloadTitle(Shelf(n)[n]),
               resps |-> resps,
               outs |-> <<>>,
               result |-> NotRun,
               files |-> {}]

\* line 220: withRetry(async () => await downloadPdf(pdfUrl, downloadTitle), …)
DownloadRun ==
  /\ unit.fn = "downloadPdf"
  /\ unit.result = NotRun
  /\ LET outs == [k \in 1..(MAX_RETRIES + 1) |->
                    downloadPdf(unit.url, unit.title, unit.resps[k])]
         r == withRetry(outs, ActionName("download", unit.title), MAX_RETRIES)
     IN  unit' = [unit EXCEPT !.outs = outs, !.result = r,
                              !.files = AfterDownloads({}, outs, r.invoked)]
  /\ UNCHANGED program

SpecDownload == DownloadInit /\ [][DownloadRun]_vars

\* ------------------------------------------------ single file names
\* The characters a book title is drawn from: the forbidden ones, a letter and
\* the replacement character itself.
TitleChars == ForbiddenChars \cup {"A", "_"}

ExampleTitle == <<"A", "/", "B", ":", "C", "*", "D">>

Titles == UNION {[1..n -> TitleChars] : n \in 0..MaxTitleLen} \cup {ExampleTitle}

SanitizeInit ==
  /\ NotStarted
  /\ \E book \in Titles : unit = [fn |-> "fileName", book |-> book, path |-> NULL]

\* lines 219 and 38-39: the path downloadPdf writes for one book
SanitizeRun ==
  /\ unit.fn = "fileName"
  /\ unit.path = NULL
  /\ unit' = [unit EXCEPT !.path = DownloadFilePath(DownloadTitle(unit.book))]
  /\ UNCHANGED program

SpecSanitize == SanitizeInit /\ [][SanitizeRun]_vars

\* ------------------------------------------------ single classifications
\* The steps of a book whose error message carries the book's title.
TitledSteps == {"navigate", "regex", "dropdown", "select", "waitUrl", "waitLoad"}

ClassifyTitles == {Shelf(2)[1], Shelf(2)[2], <<"B">>}

\* The error the book's catch receives when the step fails for the book with
\* that title, every attempt rejecting with the same underlying cause.
CaughtError(step, title, cause) ==
  IF step = "regex" THEN RegexFailedError(title)
  ELSE withRetry([k \in 1..(MAX_RETRIES + 1) |-> Rejected(cause)],
                 ActionName(step, title), MAX_RETRIES).val

ClassifyInit ==
  /\ NotStarted
  /\ \E step \in TitledSteps, cause \in BrowserErrors,
        t1 \in ClassifyTitles, t2 \in ClassifyTitles :
       unit = [fn |-> "classify", step |-> step, cause |-> cause,
               titles |-> <<t1, t2>>, verdicts |-> <<>>]

\* lines 228-241, for the same failure in two runs that differ in the title
ClassifyRun ==
  /\ unit.fn = "classify"
  /\ unit.verdicts = <<>>
  /\ unit' = [unit EXCEPT !.verdicts =
                [n \in 1..2 |->
                   LET critical == IsCriticalError(CaughtError(unit.step, unit.titles[n],
                                                               unit.cause))
                   IN  [criticalError |-> critical,
                        teardown |-> RestartsSession(critical, "handle")]]]
  /\ UNCHANGED program

SpecClassify == ClassifyInit /\ [][ClassifyRun]_vars

\* ------------------------------------------------------------- properties
Ledger == 1..Len(downloadResults)

\* The book loop has ended normally.
LoopEnded == pc \in {"save", "outerFinally", "done"} /\ outerError = NULL

\* Positions inside the book loop, the session not yet handed to the final cleanup.
InLoop ==
  pc \in {"loopHead", "newPage", "navigate", "extract", "dropdown", "arm", "select",
          "awaitNewPage", "waitUrl", "waitLoad", "download", "catch", "finally",
          "hung", "save"}

NoCriticalSoFar == \A j \in Ledger : ~downloadResults[j].criticalError

Contains(s, t) == \E j \in 1..(Len(s) - Len(t) + 1) : SubSeq(s, j, j + Len(t) - 1) = t

\* C1: when the book loop ends, the ledger holds exactly one BookResult per
\* discovered BookEntry, in every mix of per-book outcomes: as many results as
\* books, the j-th for the j-th book; and at each loop test every book before
\* the current one has its result.
C1_OneResultPerBook ==
  /\ LoopEnded =>
       /\ Len(downloadResults) = Len(books)
       /\ \A j \in Ledger : downloadResults[j].title = books[j]
  /\ pc = "loopHead" => Len(downloadResults) = i - 1

C1_Witness ==
  /\ pc = "save"
  /\ Len(downloadResults) = 2
  /\ downloadResults[1].criticalError
  /\ ~downloadResults[2].success

\* C2: a BookResult has success = TRUE exactly when its pdfUrl and downloadPath
\* are non-null and the file at downloadPath is non-empty; a failed one has a
\* null downloadPath, also when the PDF URL had been located.
C2_SuccessIffDownloaded ==
  \A j \in Ledger :
    LET r == downloadResults[j] IN
    /\ r.success <=>
         /\ r.pdfUrl # NULL
         /\ r.downloadPath # NULL
         /\ \E f \in files : f[1] = r.downloadPath /\ f[2] > 0
    /\ r.success => \A f \in files : f[1] = r.downloadPath => f[2] > 0
    /\ ~r.success => r.downloadPath = NULL

C2_Witness ==
  /\ pc = "finally"
  /\ pdfUrl # NULL
  /\ ~downloadResults[i].success
  /\ downloadResults[i].downloadPath = NULL
  /\ \E j \in Ledger : downloadResults[j].success

\* C3: a failure raised while one book is processed never ends the batch: the
\* run is not terminated while books are still without a result, and the
\* outer handler is entered from the setup phase only.
C3_BookFailuresContained ==
  /\ ~(pc = "crashed" /\ Len(downloadResults) < Len(books))
  /\ pc = "outerCatch" => (i = 1 /\ downloadResults = <<>>)

\* C4: after a critical failure, a later book all of whose steps would
\* succeed is recorded with success = TRUE.
C4_HealthyBookAfterRestartSucceeds ==
  (/\ pc = "finally"
   /\ healthy
   /\ \E j \in 1..(i - 1) : downloadResults[j].criticalError)
  => downloadResults[i].success

RetryDone == unit.fn = "withRetry" /\ unit.result # NotRun

\* The action fails k times and then succeeds.
FailsThenSucceeds(act, k) ==
  /\ k + 1 <= Len(act)
  /\ \A j \in 1..k : act[j].kind = "fail"
  /\ act[k + 1].kind = "ok"

\* The first n invocations of the action all fail.
AlwaysFails(act, n) == n <= Len(act) /\ \A j \in 1..n : act[j].kind = "fail"

\* C7: for an action that fails k times and then succeeds, with retryCount >= k,
\* withRetry returns the value of invocation k+1 and invokes the action
\* exactly k+1 times.
C7_RetryReturnsFirstSuccess ==
  RetryDone =>
    \A k \in 0..unit.retryCount :
      FailsThenSucceeds(unit.act, k) =>
        /\ unit.result.kind = "ok"
        /\ unit.result.val = <<"value", ToString(k + 1)>>
        /\ unit.result.invoked = k + 1

C7_Witness ==
  /\ RetryDone
  /\ unit.retryCount = 2
  /\ FailsThenSucceeds(unit.act, 2)
  /\ unit.result.invoked = 3

\* C8: for an action that always fails, withRetry with retryCount = m fails
\* after exactly m+1 invocations; after failed attempt a (a = 0..m-1) it waits
\* min(1000 * 2^a, 10000) ms, so no wait exceeds 10000 ms and the total is at
\* least their sum; the error names the label and the last underlying message.
C8_RetryExhaustsWithBackoff ==
  RetryDone =>
    LET m == unit.retryCount
        r == unit.result
        due == [a \in 1..m |-> Min(1000 * Pow2(a - 1), 10000)]
    IN  AlwaysFails(unit.act, m + 1) =>
          /\ r.kind = "fail"
          /\ r.invoked = m + 1
          /\ r.waits = due
          /\ \A a \in 1..Len(r.waits) : r.waits[a] <= 10000
          /\ SumSeq(r.waits) >= SumSeq(due)
          /\ Contains(r.val, unit.actionName)
          /\ Contains(r.val, unit.act[m + 1].val)

C8_Witness ==
  /\ RetryDone
  /\ unit.retryCount = 5
  /\ AlwaysFails(unit.act, 6)
  /\ unit.result.kind = "fail"
  /\ unit.result.waits = <<1000, 2000, 4000, 8000, 10000>>

\* ---- downloadPdf
DownloadDone == unit.fn = "downloadPdf" /\ unit.result # NotRun

\* C9: downloadPdf writes a file only for a 200 response with a non-empty
\* body: a non-200 status fails with the status error and writes nothing, a
\* 200 response with an empty body fails with the empty-content error and
\* writes nothing, in every attempt the retried download makes.
C9_DownloadWritesOnlyGoodBodies ==
  DownloadDone =>
    /\ \A k \in 1..unit.result.invoked :
         LET resp == unit.resps[k]
             out == unit.outs[k]
         IN  /\ (resp.kind = "response" /\ resp.status # 200) =>
                  /\ out.kind = "fail"
                  /\ out.val[1] = "Failed to download PDF. Status code:"
                  /\ out.file = NULL
             /\ (resp.kind = "response" /\ resp.status = 200
                   /\ resp.body = "end" /\ resp.len = 0) =>
                  /\ out.kind = "fail"
                  /\ out.val[Len(out.val)] = "is empty."
                  /\ out.file = NULL
             /\ out.file # NULL =>
                  (resp.kind = "response" /\ resp.status = 200 /\ resp.len > 0)
    /\ \A f \in unit.files :
         /\ f[2] > 0
         /\ \E k \in 1..unit.result.invoked :
              unit.resps[k].status = 200 /\ unit.resps[k].len = f[2]

C9_Witness ==
  /\ DownloadDone
  /\ unit.resps[1].kind = "response" /\ unit.resps[1].status = 404
  /\ unit.resps[1].len > 0
  /\ unit.resps[2].kind = "response" /\ unit.resps[2].status = 200
  /\ unit.resps[2].body = "end" /\ unit.resps[2].len = 0
  /\ unit.result.kind = "fail"
  /\ unit.result.invoked = 2
  /\ unit.files = {}

\* C10: the ledger only grows at its end, and the j-th BookResult is the j-th
\* discovered book's, whatever mix of outcomes occurred.
C10_LedgerAppendOnlyOrdered ==
  /\ [](\A j \in Ledger : j <= Len(books) /\ downloadResults[j].title = books[j])
  /\ [][/\ Len(downloadResults') >= Len(downloadResults)
        /\ SubSeq(downloadResults', 1, Len(downloadResults)) = downloadResults]_vars

C10_Witness ==
  /\ Len(downloadResults) = 2
  /\ downloadResults[1].success
  /\ downloadResults[2].criticalError
  /\ downloadResults[1].title # downloadResults[2].title

\* C11: at the end of each book's iteration every page opened for that book is
\* closed: the per-book page, the PDF page, and a PDF tab opened by a selection
\* attempt whose handle was never assigned to newPageForPdf.
C11_PagesClosedAtIterationEnd ==
  pc = "loopHead" => \A p \in pages : ~(p[2] \in {"book", "pdf"} /\ p[1] < i)

\* C12: when the launch or the listing scan fails, no book is processed, no
\* results file is written and the error stays inside the run (the outer catch
\* takes it); and a run that reaches its end, after the tally or after a setup
\* failure, has gone through the final cleanup, which closed the browser if
\* one was still held.
C12_SetupFailureContained ==
  /\ outerError # NULL =>
       /\ pc \in {"outerCatch", "outerFinally", "done"}
       /\ downloadResults = <<>>
       /\ i = 1
       /\ files = {}
       /\ ~resultsSaved
  /\ pc = "done" => ~live /\ pages = {}

C12_Witness ==
  /\ pc = "done"
  /\ outerError # NULL
  /\ books = <<>>
  /\ browser = "handle"
  /\ context = "handle"
  /\ ~live

SanitizeDone == unit.fn = "fileName" /\ unit.path # NULL

\* The file name of a path under the downloads directory.
FileName(path) == SubSeq(path, 3, Len(path))

\* C13: the file name of a book's download is productName-productVersion-title
\* plus ".pdf", with each of / \ : * ? " < > | replaced by "_" and every other
\* character kept; A/B:C*D with p and v gives p-v-A_B_C_D.pdf; sanitizing the
\* sanitized title changes nothing and the name holds no forbidden character.
C13_SanitizedFileName ==
  SanitizeDone =>
    LET name == FileName(unit.path)
        book == unit.book
        stem == SubSeq(name, 1, Len(name) - 1)
    IN  /\ SubSeq(unit.path, 1, 2) = <<"downloads", "/">>
        /\ Len(name) = Len(book) + 5
        /\ SubSeq(name, 1, 4) = <<"p", "-", "v", "-">>
        /\ name[Len(name)] = ".pdf"
        /\ \A k \in 1..Len(book) :
             name[4 + k] =
               IF book[k] \in {"/", "\\", ":", "*", "?", "\"", "<", ">", "|"}
               THEN "_" ELSE book[k]
        /\ \A k \in 1..Len(stem) :
             stem[k] \notin {"/", "\\", ":", "*", "?", "\"", "<", ">", "|"}
        /\ SanitizeTitle(stem) = stem
        /\ book = ExampleTitle =>
             name = <<"p", "-", "v", "-", "A", "_", "B", "_", "C", "_", "D", ".pdf">>

C13_Witness ==
  /\ SanitizeDone
  /\ unit.book = ExampleTitle
  /\ unit.path = <<"downloads", "/", "p", "-", "v", "-",
                   "A", "_", "B", "_", "C", "_", "D", ".pdf">>

StageAfter(stage) ==
  CASE stage = "navigate" -> "locate"
    [] stage = "locate" -> "download"
    [] OTHER -> "record"

Locating == {"extract", "dropdown", "arm", "select", "awaitNewPage", "waitUrl", "waitLoad"}

\* C14: a book goes through navigation, PDF location, download and recording
\* in that order: the PDF is located only after the navigation succeeded, the
\* download is attempted only after the location produced a non-null PDF URL,
\* and a stage that fails is followed by the recording alone.
C14_StagesInOrder ==
  /\ trail # <<>> => trail[1][1] \in {"navigate", "record"}
  /\ \A k \in 1..(Len(trail) - 1) :
       /\ trail[k][1] # "record"
       /\ trail[k + 1][1] = IF trail[k][2] = "ok" THEN StageAfter(trail[k][1]) ELSE "record"
  /\ \A k \in 1..Len(trail) : trail[k][1] = "download" => pdfUrl # NULL
  /\ pc \in Locating => trail = <<<<"navigate", "ok">>>>
  /\ pc = "download" =>
       /\ trail = <<<<"navigate", "ok">>, <<"locate", "ok">>>>
       /\ pdfUrl # NULL
  /\ pc = "finally" => trail[Len(trail)][1] = "record"

C14_Witness ==
  /\ pc = "finally"
  /\ ~runHeadless
  /\ newPageForPdf # NoPage
  /\ trail = <<<<"navigate", "ok">>, <<"locate", "fail">>, <<"record", "fail">>>>

\* C15: in headed mode, when the format selection is retried the new-page
\* listener is armed again with it, so the page assigned to newPageForPdf is
\* the tab opened by the latest selection attempt.
C15_HandleIsLatestSelection ==
  newPageForPdf # NoPage =>
    \A p \in pages : (p[1] = newPageForPdf[1] /\ p[2] = "pdf") => p[3] <= newPageForPdf[3]

\* C16: once a book's result is recorded nothing started for that book is
\* still pending: the new-page listener has been awaited or cancelled within
\* the iteration, so no listener of an earlier book is armed later on.
C16_NothingPendingAfterRecord ==
  /\ pc = "finally" => newPagePromise.state # "pending"
  /\ stale = {}

CriticalResults == {j \in Ledger : downloadResults[j].criticalError}

\* C17: the session is torn down at most once per critical failure (never more
\* teardowns than BookResults with criticalError = true), and the context is
\* never closed by a book's catch while a new-page listener of that session
\* is still armed.
C17_TeardownOnlyWhenQuiet ==
  /\ [](teardowns <= Cardinality(CriticalResults))
  /\ [][(pc = "catch" /\ live /\ ~live') =>
          (newPagePromise.state # "pending" /\ stale = {})]_vars

\* The run has reached its end: the outer finally is over, or the process exited.
Terminated == pc \in {"done", "crashed"}

\* C18: whatever the books and the outcomes of their steps, a server that never
\* completes a response included, the run terminates: a run that has not
\* reached its end always has a next step to take.
C18_RunNeverStuck == Terminated \/ ENABLED Next

ClassifyDone == unit.fn = "classify" /\ unit.verdicts # <<>>

\* C19: the critical classification does not depend on the book's title: the
\* same failing step with the same underlying error message gives the same
\* criticalError flag and the same teardown decision whatever the title.
C19_ClassificationIgnoresTitle ==
  ClassifyDone => unit.verdicts[1] = unit.verdicts[2]

\* C20: once a critical failure has torn the session down, nothing is launched
\* again: browser and context stay null, every later book is recorded with
\* success = false and criticalError = false on the failing newPage() alone
\* (no navigation, location or download is attempted for it), there is no
\* second teardown, and the final cleanup finds no browser to close.
C20_NoRelaunchAfterTeardown ==
  /\ launches <= 1
  /\ teardowns <= 1
  /\ teardowns = 1 =>
       /\ browser = "null" /\ context = "null" /\ ~live
       /\ CriticalResults # {}
       /\ LET j == CHOOSE c \in CriticalResults : \A d \in CriticalResults : c <= d
          IN
            /\ \A k \in Ledger : k > j =>
                 /\ ~downloadResults[k].success
                 /\ ~downloadResults[k].criticalError
                 /\ downloadResults[k].error = NullContextError
            /\ (i > j /\ pc \notin {"loopHead", "save", "outerFinally", "done"}) =>
                 /\ pc \in {"newPage", "catch", "finally"}
                 /\ \A n \in 1..Len(trail) : trail[n][1] = "record"
                 /\ pages = {}
       /\ pc = "outerFinally" => ~ClosesBrowser(browser)

C20_Witness ==
  /\ pc = "done"
  /\ teardowns = 1
  /\ launches = 1
  /\ Len(downloadResults) = 2
  /\ downloadResults[1].criticalError
  /\ ~downloadResults[2].success
  /\ ~downloadResults[2].criticalError
  /\ downloadResults[2].error = NullContextError
  /\ browser = "null"

====
